---------------------------- MODULE Spec2Model ----------------------------
(***************************************************************************)
(* Model of src/analyzer.py (TelegramWorkAnalyzer): configuration check,   *)
(* run() pipeline, collect_messages, _calculate_stats,                     *)
(* _parse_claude_response, format_telegram_report and send_via_bot.        *)
(*                                                                         *)
(* Time is counted in hours (a message's hour-of-day is date % 24).        *)
(* Texts are represented by their length, except the model response,       *)
(* which is a sequence of lexical tokens that the parser really parses.    *)
(***************************************************************************)
EXTENDS Integers, Sequences, FiniteSets, TLC

VARIABLES
    cfg,          \* module-level configuration read from the environment
    pc,           \* position of main()/run()
    my_id,        \* self.my_id
    nDialogs,     \* number of dialogs get_dialogs returned
    walkLog,      \* one entry per dialog the for-loop of collect_messages handled
    chats,        \* self.data["chats"]: insertion-ordered mapping name -> ChatRecord
    my_messages,  \* self.data["my_messages"]: flat list of owned messages
    stats,        \* self.data["stats"]
    embed,        \* how the model response was composed: prose, document, prose
    text,         \* text returned by the model call
    analysis,     \* result of _parse_claude_response
    reports,      \* result of format_telegram_report
    sv,           \* position inside send_via_bot
    sends,        \* every send attempt made through the messaging transport
    exc,          \* the exception run() is handling, if any
    net,          \* kinds of network operation performed so far
    disconnects   \* number of calls of client.disconnect

vars == <<cfg, pc, my_id, nDialogs, walkLog, chats, my_messages, stats, embed,
          text, analysis, reports, sv, sends, exc, net, disconnects>>

-----------------------------------------------------------------------------
(* Program constants *)

DAYS_TO_ANALYZE == 30
MAX_MESSAGES_PER_CHAT == 500
MAX_CHATS == 50
TOP_N == 10
TEXT_LIMIT == 1000
ERROR_LIMIT == 500
SOP_LIMIT == 5
SEND_DELAY_MS == 500
SESSION_ERROR_LEN == 66   \* length of the message of the ValueError of connect

(* Bounds of the model *)

MaxDialogs == 2      \* dialogs get_dialogs returns in the collection model
MaxRunDialogs == 1   \* dialogs get_dialogs returns in the pipeline model
MaxHist == 2         \* length of the enumerated short message histories
MaxStatChats == 11   \* chats in the statistics model
MaxCount == 2        \* owned-message count of every third chat in the statistics model
MaxProse == 2        \* length of the prose before and after the document
MaxSops == 1         \* procedure records in a model response of the pipeline model

Now == 1000                          \* datetime.now(), in hours
cutoff_date == Now - DAYS_TO_ANALYZE * 24

Min(a, b) == IF a < b THEN a ELSE b

None == "None"
ErrLens == {12, ERROR_LIMIT, ERROR_LIMIT + 1}   \* lengths of str(e)
NoFail == -1

\* an exception on its way to the except clause of run(); len is len(str(e))
Raise(step, len) == [raised |-> TRUE, len |-> len, step |-> step, escaped |-> FALSE]
NoExc == [raised |-> FALSE, len |-> 0, step |-> "none", escaped |-> FALSE]

\* where control goes from the try block of run(): an exception enters the
\* except clause, a return and the normal end run the finally clause
OnRaise == "except"
EarlyReturn_nofinally == "done"
EarlyReturn == "finally"
NormalEnd == "finally"
AfterExcept == "finally"

-----------------------------------------------------------------------------
(* Entities and the Entity Classifier *)

Entity(cls, id, first, last, title, bot, mega) ==
    [cls |-> cls, id |-> id, first_name |-> first, last_name |-> last,
     title |-> title, bot |-> bot, megagroup |-> mega]

UserA   == Entity("User", "1", <<"A">>, <<>>, <<>>, FALSE, FALSE)
UserAB  == Entity("User", "2", <<"A">>, <<"B">>, <<>>, FALSE, FALSE)
UserNoName == Entity("User", "3", <<>>, <<>>, <<>>, FALSE, FALSE)
BotB    == Entity("User", "4", <<"B">>, <<>>, <<>>, TRUE, FALSE)
GroupA  == Entity("Chat", "5", <<>>, <<>>, <<"A">>, FALSE, FALSE)
SuperC  == Entity("Channel", "6", <<>>, <<>>, <<"C">>, FALSE, TRUE)
ChannelD == Entity("Channel", "7", <<>>, <<>>, <<"D">>, FALSE, FALSE)
OtherE  == Entity("Other", "8", <<>>, <<>>, None, FALSE, FALSE)

\* a name is a sequence of words; joining with a blank and strip() are the
\* concatenation of the word sequences
_get_chat_name(entity) ==
    IF entity.cls = "User"
    THEN LET name == entity.first_name \o entity.last_name
         IN  IF name # <<>> THEN name ELSE <<"User_", entity.id>>
    ELSE IF entity.title # None THEN entity.title ELSE <<"Chat_", entity.id>>

_get_chat_type(entity) ==
    IF entity.cls = "User"
    THEN IF entity.bot THEN "bot" ELSE "personal"
    ELSE IF entity.cls = "Chat" THEN "group"
    ELSE IF entity.cls = "Channel"
         THEN IF entity.megagroup THEN "supergroup" ELSE "channel"
         ELSE "unknown"

-----------------------------------------------------------------------------
(* Messages and histories *)

Msg(date, textLen, sender) == [date |-> date, textLen |-> textLen, sender |-> sender]

MineNew   == Msg(Now - 1, 5, "me")
MineLong  == Msg(Now - 2, TEXT_LIMIT + 1, "me")
OtherNew  == Msg(Now - 3, 7, "other")
NoText    == Msg(Now - 4, 0, "me")
MineEdge  == Msg(cutoff_date, 3, "me")
MineOld   == Msg(cutoff_date - 1, 4, "me")

MsgKinds == {MineNew, OtherNew, NoText, MineOld}

\* iter_messages yields newest first
NewestFirst(h) == \A i \in 1..(Len(h) - 1) : h[i].date >= h[i + 1].date

SeqsUpTo(S, n) == UNION {[1..k -> S] : k \in 0..n}

ShortHistories == {h \in SeqsUpTo(MsgKinds, MaxHist) : NewestFirst(h)}

\* n recent messages, one in a hundred owned, followed by one old message
LongHistory(n) ==
    [i \in 1..(n + 1) |->
        IF i = n + 1 THEN MineOld
        ELSE IF i % 100 = 1 THEN MineNew ELSE Msg(Now - 1, 7, "other")]

LongHistories ==
    {LongHistory(MAX_MESSAGES_PER_CHAT - 1), LongHistory(MAX_MESSAGES_PER_CHAT + 1)}

\* client.iter_messages(entity, limit=MAX_MESSAGES_PER_CHAT, ...): at most
\* limit messages are yielded
IterMessages(history, limit) == SubSeq(history, 1, Min(Len(history), limit))

-----------------------------------------------------------------------------
(* The insertion-ordered mapping of Python (dict) *)

DictHas(d, k) == \E i \in 1..Len(d) : d[i].key = k

DictSet(d, k, v) ==
    IF DictHas(d, k)
    THEN [i \in 1..Len(d) |-> IF d[i].key = k THEN [key |-> k, val |-> v] ELSE d[i]]
    ELSE Append(d, [key |-> k, val |-> v])

DictGet(d, k) == d[CHOOSE i \in 1..Len(d) : d[i].key = k].val

-----------------------------------------------------------------------------
(* collect_messages: the body of the for-loop over the dialogs *)

\* msg_data; hour is the hour of the day of the timestamp.  Dates are the
\* naive values the code compares after replace(tzinfo=None).
MsgData(msg) ==
    [date |-> msg.date, text |-> Min(msg.textLen, TEXT_LIMIT),
     is_mine |-> (msg.sender = my_id), hour |-> msg.date % 24]

\* index of the first message older than the cutoff, 0 if there is none
FirstOld(history) ==
    LET old == {i \in 1..Len(history) : history[i].date < cutoff_date}
    IN  IF old = {} THEN 0 ELSE CHOOSE i \in old : \A j \in old : i <= j

WalkStop_nobreak(yielded) ==
    [outcome |-> "exhausted", walked |-> Len(yielded), kept |-> Len(yielded)]

\* where the async-for stops: "break" at the first message older than the
\* cutoff, "exhausted" when the iterator has nothing more to yield
WalkStop(yielded) ==
    LET brk == FirstOld(yielded)
    IN  IF brk # 0
        THEN [outcome |-> "break", walked |-> brk, kept |-> brk - 1]
        ELSE [outcome |-> "exhausted", walked |-> Len(yielded), kept |-> Len(yielded)]

\* the async-for over iter_messages with its try block.  yielded is what the
\* iterator can yield, failAt the number of messages it yields before the
\* fetch raises (NoFail: it never raises), flat is self.data["my_messages"].
\* The messages 1..kept pass the date test and run the body of the loop.
\* The fetch that raises is met if the loop asks for message failAt + 1:
\* before the break, or at the end of a history shorter than the limit.
Walk(yielded, failAt, chat_name, chat_type, flat) ==
    LET stop == WalkStop(yielded)
        asked == IF stop.outcome = "exhausted" /\ Len(yielded) < MAX_MESSAGES_PER_CHAT
                 THEN stop.walked + 1 ELSE stop.walked
        end == IF failAt # NoFail /\ failAt < asked
               THEN [outcome |-> "error", walked |-> failAt, kept |-> failAt]
               ELSE stop
        body == SelectSeq(SubSeq(yielded, 1, end.kept), LAMBDA m : m.textLen > 0)
        mine == SelectSeq(body, LAMBDA m : m.sender = my_id)
    IN  [messages |-> [i \in 1..Len(body) |-> MsgData(body[i])],
         my_messages_count |-> Len(mine),
         flat |-> flat \o [i \in 1..Len(mine) |->
                      [chat |-> chat_name, chat_type |-> chat_type,
                       date |-> MsgData(mine[i]).date,
                       text |-> MsgData(mine[i]).text,
                       is_mine |-> MsgData(mine[i]).is_mine,
                       hour |-> MsgData(mine[i]).hour]],
         walked |-> end.walked,
         outcome |-> end.outcome]

AfterDialog_raise(outcome) == IF outcome = "error" THEN OnRaise ELSE "collect"

\* where the for-loop goes after a dialog: "except Exception ... continue"
\* and the normal end of the body both go on with the next dialog
AfterDialog(outcome) == "collect"

\* a dialog as the session collaborator presents it
Dialog(entity, history, failAt) ==
    [entity |-> entity, history |-> history, failAt |-> failAt]

\* get_dialogs(limit=MAX_CHATS); counts is what the account may hold
GetDialogs(counts) ==
    /\ pc = "get_dialogs"
    /\ net' = net \cup {"get_dialogs"}
    /\ \/ /\ \E n \in counts : nDialogs' = Min(n, MAX_CHATS)
          /\ pc' = "collect"
          /\ exc' = exc
       \/ /\ \E len \in ErrLens : exc' = Raise("collect", len)
          /\ pc' = OnRaise
          /\ nDialogs' = nDialogs
    /\ UNCHANGED <<cfg, my_id, walkLog, chats, my_messages, stats, embed, text,
                   analysis, reports, sv, sends, disconnects>>

CollectDialog(d) ==
    /\ pc = "collect"
    /\ Len(walkLog) < nDialogs
    /\ LET chat_name == _get_chat_name(d.entity)
           chat_type == _get_chat_type(d.entity)
       IN  IF chat_type = "bot"
           THEN /\ walkLog' = Append(walkLog,
                       [name |-> chat_name, type |-> chat_type, outcome |-> "bot",
                        stop |-> "none", walked |-> 0,
                        firstOld |-> FirstOld(d.history)])
                /\ UNCHANGED <<pc, chats, my_messages, net, exc>>
           ELSE LET r == Walk(IterMessages(d.history, MAX_MESSAGES_PER_CHAT),
                              d.failAt, chat_name, chat_type, my_messages)
                    result == IF r.outcome = "error" THEN "error"
                              ELSE IF r.messages # <<>> THEN "recorded"
                              ELSE "empty"
                IN  /\ net' = net \cup {"iter_messages"}
                    /\ my_messages' = r.flat
                    /\ chats' =
                         IF result = "recorded"
                         THEN DictSet(chats, chat_name,
                                [type |-> chat_type,
                                 total_messages |-> Len(r.messages),
                                 my_messages |-> r.my_messages_count,
                                 messages |-> r.messages])
                         ELSE chats
                    /\ walkLog' = Append(walkLog,
                         [name |-> chat_name, type |-> chat_type, outcome |-> result,
                          stop |-> r.outcome, walked |-> r.walked,
                          firstOld |-> FirstOld(d.history)])
                    /\ pc' = AfterDialog(result)
                    /\ exc' = IF AfterDialog(result) = "except"
                              THEN Raise("fetch", 12) ELSE exc
    /\ UNCHANGED <<cfg, my_id, nDialogs, stats, embed, text, analysis, reports, sv,
                   sends, disconnects>>

-----------------------------------------------------------------------------
(* _calculate_stats *)

InsertDesc_unstable(sorted, item) ==
    LET ahead == {i \in 1..Len(sorted) : sorted[i].val > item.val}
        k == IF ahead = {} THEN 0
             ELSE CHOOSE i \in ahead : \A j \in ahead : j <= i
    IN  SubSeq(sorted, 1, k) \o <<item>> \o SubSeq(sorted, k + 1, Len(sorted))

\* sorted(..., key=lambda x: x[1], reverse=True) is stable: an item goes
\* behind every item whose count is greater or equal
InsertDesc(sorted, item) ==
    LET ahead == {i \in 1..Len(sorted) : sorted[i].val >= item.val}
        k == IF ahead = {} THEN 0
             ELSE CHOOSE i \in ahead : \A j \in ahead : j <= i
    IN  SubSeq(sorted, 1, k) \o <<item>> \o SubSeq(sorted, k + 1, Len(sorted))

RECURSIVE SortedDesc(_)
SortedDesc(items) ==
    IF items = <<>> THEN <<>>
    ELSE InsertDesc(SortedDesc(SubSeq(items, 1, Len(items) - 1)), items[Len(items)])

TopChats(chat_activity) ==
    LET s == SortedDesc(chat_activity)
    IN  SubSeq(s, 1, Min(Len(s), TOP_N))

CountWhere(seq, field, v) == Cardinality({i \in 1..Len(seq) : seq[i][field] = v})

_calculate_stats(st, data_chats, data_my_messages) ==
    LET types == {data_my_messages[i].chat_type : i \in 1..Len(data_my_messages)}
        hours == {data_my_messages[i].hour : i \in 1..Len(data_my_messages)}
        chat_activity == [i \in 1..Len(data_chats) |->
                            [key |-> data_chats[i].key,
                             val |-> data_chats[i].val.my_messages]]
    IN  [total_my_messages |-> st.total_my_messages + Len(data_my_messages),
         by_type |-> [t \in types |-> CountWhere(data_my_messages, "chat_type", t)],
         by_hour |-> [h \in hours |-> CountWhere(data_my_messages, "hour", h)],
         top_chats |-> TopChats(chat_activity)]

EmptyStats == [total_my_messages |-> 0, by_type |-> <<>>, by_hour |-> <<>>,
               top_chats |-> <<>>]

\* the end of collect_messages: the for-loop is over, _calculate_stats runs
CollectFinish ==
    /\ pc = "collect"
    /\ Len(walkLog) = nDialogs
    /\ stats' = _calculate_stats(stats, chats, my_messages)
    /\ pc' = "check_total"
    /\ UNCHANGED <<cfg, my_id, nDialogs, walkLog, chats, my_messages, embed, text,
                   analysis, reports, sv, sends, exc, net, disconnects>>

-----------------------------------------------------------------------------
(* Structured documents (JSON) over lexical tokens.  "s" is the string     *)
(* "sop_candidates", "k" any other string, "1" a number, "x" a word of     *)
(* prose.                                                                  *)

StrToks == {"s", "k"}

JNum == [t |-> "num", m |-> <<>>, s |-> ""]
JStr(tok) == [t |-> "str", m |-> <<>>, s |-> tok]
JArr(elems) == [t |-> "arr", m |-> elems, s |-> ""]
JObj(members) == [t |-> "obj", m |-> members, s |-> ""]

Tok(toks, i) == IF i \in 1..Len(toks) THEN toks[i] ELSE "EOF"

ParseFail == [ok |-> FALSE, val |-> JNum, next |-> 0]
Parsed(val, next) == [ok |-> TRUE, val |-> val, next |-> next]

\* the decoder of json.loads: the value that starts at token i
RECURSIVE ParseValue(_, _), ParseMembers(_, _, _), ParseElements(_, _, _)
ParseValue(toks, i) ==
    LET tok == Tok(toks, i)
    IN  IF tok = "{"
        THEN IF Tok(toks, i + 1) = "}"
             THEN Parsed(JObj(<<>>), i + 2)
             ELSE ParseMembers(toks, i + 1, <<>>)
        ELSE IF tok = "["
        THEN IF Tok(toks, i + 1) = "]"
             THEN Parsed(JArr(<<>>), i + 2)
             ELSE ParseElements(toks, i + 1, <<>>)
        ELSE IF tok = "1" THEN Parsed(JNum, i + 1)
        ELSE IF tok \in StrToks THEN Parsed(JStr(tok), i + 1)
        ELSE ParseFail

ParseMembers(toks, i, acc) ==
    IF Tok(toks, i) \in StrToks /\ Tok(toks, i + 1) = ":"
    THEN LET r == ParseValue(toks, i + 2)
         IN  IF ~r.ok THEN ParseFail
             ELSE LET acc2 == DictSet(acc, Tok(toks, i), r.val)
                  IN  IF Tok(toks, r.next) = ","
                      THEN ParseMembers(toks, r.next + 1, acc2)
                      ELSE IF Tok(toks, r.next) = "}"
                      THEN Parsed(JObj(acc2), r.next + 1)
                      ELSE ParseFail
    ELSE ParseFail

ParseElements(toks, i, acc) ==
    LET r == ParseValue(toks, i)
    IN  IF ~r.ok THEN ParseFail
        ELSE LET acc2 == Append(acc, r.val)
             IN  IF Tok(toks, r.next) = ","
                 THEN ParseElements(toks, r.next + 1, acc2)
                 ELSE IF Tok(toks, r.next) = "]"
                 THEN Parsed(JArr(acc2), r.next + 1)
                 ELSE ParseFail

\* json.loads(s): one value and nothing after it, else JSONDecodeError
JsonLoads(toks) ==
    LET r == ParseValue(toks, 1)
    IN  IF r.ok /\ r.next = Len(toks) + 1 THEN r ELSE ParseFail

\* json.dumps, the inverse direction: the tokens of a value
RECURSIVE JsonDumps(_), DumpMembers(_, _), DumpElements(_, _)
JsonDumps(v) ==
    IF v.t = "num" THEN <<"1">>
    ELSE IF v.t = "str" THEN <<v.s>>
    ELSE IF v.t = "arr" THEN <<"[">> \o DumpElements(v.m, 1) \o <<"]">>
    ELSE <<"{">> \o DumpMembers(v.m, 1) \o <<"}">>

DumpMembers(m, i) ==
    IF i > Len(m) THEN <<>>
    ELSE <<m[i].key, ":">> \o JsonDumps(m[i].val)
         \o (IF i < Len(m) THEN <<",">> ELSE <<>>) \o DumpMembers(m, i + 1)

DumpElements(m, i) ==
    IF i > Len(m) THEN <<>>
    ELSE JsonDumps(m[i])
         \o (IF i < Len(m) THEN <<",">> ELSE <<>>) \o DumpElements(m, i + 1)

\* str.find and str.rfind of one character: 0-based index, -1 if absent
RFind(t, ch) ==
    IF \E i \in 1..Len(t) : t[i] = ch
    THEN (CHOOSE i \in 1..Len(t) : t[i] = ch /\ \A j \in (i + 1)..Len(t) : t[j] # ch) - 1
    ELSE -1

Find_last(t, ch) == RFind(t, ch)

Find(t, ch) ==
    IF \E i \in 1..Len(t) : t[i] = ch
    THEN (CHOOSE i \in 1..Len(t) : t[i] = ch /\ \A j \in 1..(i - 1) : t[j] # ch) - 1
    ELSE -1

\* t[start:end] for 0 <= start, end <= len(t)
Slice(t, start, end) == SubSeq(t, start + 1, end)

RawResponse(t) == [kind |-> "raw", doc |-> JNum, raw |-> t]
NoAnalysis == [kind |-> "none", doc |-> JNum, raw |-> <<>>]

_parse_claude_response(t) ==
    LET start == Find(t, "{")
        end == RFind(t, "}") + 1
    IN  IF start # -1 /\ end > start
        THEN LET r == JsonLoads(Slice(t, start, end))
             IN  IF r.ok THEN [kind |-> "parsed", doc |-> r.val, raw |-> <<>>]
                 ELSE RawResponse(t)
        ELSE RawResponse(t)

-----------------------------------------------------------------------------
(* format_telegram_report: the number of procedure fragments *)

\* analysis.get(key, default) on the parsed object or on {"raw_response": text}
AnalysisGet(a, key, default) ==
    IF a.kind = "parsed" /\ DictHas(a.doc.m, key) THEN DictGet(a.doc.m, key) ELSE default

\* sops[:5] and sop.get(...) need a list of objects; anything else raises
SopsRenderable(a) ==
    LET sops == AnalysisGet(a, "s", JArr(<<>>))
    IN  /\ sops.t = "arr"
        /\ \A i \in 1..Min(Len(sops.m), SOP_LIMIT) : sops.m[i].t = "obj"

format_telegram_report(a) ==
    [ready |-> TRUE,
     sops |-> Min(Len(AnalysisGet(a, "s", JArr(<<>>)).m), SOP_LIMIT)]

NoReports == [ready |-> FALSE, sops |-> 0]

-----------------------------------------------------------------------------
(* main() and run() *)

Configs == [api_id : BOOLEAN, api_hash : BOOLEAN, session : BOOLEAN,
            anthropic_key : BOOLEAN, bot_token : BOOLEAN, chat_id : BOOLEAN]

AllSet == [api_id |-> TRUE, api_hash |-> TRUE, session |-> TRUE,
           anthropic_key |-> TRUE, bot_token |-> TRUE, chat_id |-> TRUE]

\* the checks of __init__: either raises ValueError
ConfigError(c) == (~c.api_id \/ ~c.api_hash) \/ ~c.session

\* "if not BOT_TOKEN or not CHAT_ID: return" of send_via_bot
DeliveryConfigured(c) == ~(~c.bot_token \/ ~c.chat_id)

NotifyConfigured_either(c) == c.bot_token \/ c.chat_id

\* "if BOT_TOKEN and CHAT_ID" of the except clause of run()
NotifyConfigured(c) == c.bot_token /\ c.chat_id

\* str(e)[:500]
ErrorText(len) == Min(len, ERROR_LIMIT)

Outcomes == {"ok", "fail", "exception"}   \* 200, another status, transport error

Attempt(kind, i, outcome, delay, errLen) ==
    [kind |-> kind, i |-> i, outcome |-> outcome, delay |-> delay, errLen |-> errLen]

Sv(phase, i) == [phase |-> phase, i |-> i]

REPORT_FRAGMENTS == 5   \* main, delegation, actions, automation, top_chats

\* asyncio.sleep(0.5) follows the post inside the try block
SleepAfter(outcome) == IF outcome = "exception" THEN 0 ELSE SEND_DELAY_MS

\* the position that follows cur in the two for-loops of send_via_bot and
\* the final message
Following(cur, nsops) ==
    IF cur.phase = "report" /\ cur.i < REPORT_FRAGMENTS THEN Sv("report", cur.i + 1)
    ELSE IF cur.phase = "report" THEN (IF nsops > 0 THEN Sv("sop", 1) ELSE Sv("ack", 0))
    ELSE IF cur.i < nsops THEN Sv("sop", cur.i + 1)
    ELSE Sv("ack", 0)

NextSend_abort(cur, outcome, nsops) ==
    IF outcome = "exception" THEN Sv("raised", 0) ELSE Following(cur, nsops)

NextSend_skipack(cur, outcome, nsops) ==
    IF outcome # "ok" /\ Following(cur, nsops).phase = "ack"
    THEN Sv("returned", 0) ELSE Following(cur, nsops)

\* the position after an attempt inside the for-loops: both loops catch
\* Exception, so the outcome of the attempt does not matter
NextSend(cur, outcome, nsops) == Following(cur, nsops)

Compose(e) == e.pre \o (IF e.has THEN JsonDumps(e.doc) ELSE <<>>) \o e.post
Embed(pre, has, doc, post) == [pre |-> pre, has |-> has, doc |-> doc, post |-> post]
NoEmbed == Embed(<<>>, FALSE, JNum, <<>>)

Construct ==
    /\ pc = "main"
    /\ pc' = IF ConfigError(cfg) THEN "crashed" ELSE "connect"
    /\ UNCHANGED <<cfg, my_id, nDialogs, walkLog, chats, my_messages, stats, embed,
                   text, analysis, reports, sv, sends, exc, net, disconnects>>

Connect ==
    /\ pc = "connect"
    /\ net' = net \cup {"connect"}
    /\ \/ /\ pc' = "get_dialogs"
          /\ my_id' = "me"
          /\ exc' = exc
       \/ /\ pc' = OnRaise
          /\ \E len \in ErrLens \cup {SESSION_ERROR_LEN} : exc' = Raise("connect", len)
          /\ my_id' = my_id
    /\ UNCHANGED <<cfg, nDialogs, walkLog, chats, my_messages, stats, embed, text,
                   analysis, reports, sv, sends, disconnects>>

CheckTotal ==
    /\ pc = "check_total"
    /\ pc' = IF stats.total_my_messages = 0 THEN EarlyReturn ELSE "analyze"
    /\ UNCHANGED <<cfg, my_id, nDialogs, walkLog, chats, my_messages, stats, embed,
                   text, analysis, reports, sv, sends, exc, net, disconnects>>

\* analyze_with_claude: the request to the model and the parse of its answer.
\* Without an API key the request fails, before or after reaching the network.
Analyze(embeds) ==
    /\ pc = "analyze"
    /\ \/ /\ cfg.anthropic_key
          /\ net' = net \cup {"model"}
          /\ \E e \in embeds :
                /\ embed' = e
                /\ text' = Compose(e)
                /\ analysis' = _parse_claude_response(Compose(e))
          /\ pc' = "format"
          /\ exc' = exc
       \/ /\ \/ net' = net \cup {"model"}
             \/ ~cfg.anthropic_key /\ net' = net
          /\ \E len \in ErrLens : exc' = Raise("analyze", len)
          /\ pc' = OnRaise
          /\ UNCHANGED <<embed, text, analysis>>
    /\ UNCHANGED <<cfg, my_id, nDialogs, walkLog, chats, my_messages, stats,
                   reports, sv, sends, disconnects>>

Format ==
    /\ pc = "format"
    /\ IF SopsRenderable(analysis)
       THEN /\ reports' = format_telegram_report(analysis)
            /\ pc' = "send"
            /\ sv' = Sv("start", 0)
            /\ exc' = exc
       ELSE /\ exc' = Raise("format", 12)
            /\ pc' = OnRaise
            /\ UNCHANGED <<reports, sv>>
    /\ UNCHANGED <<cfg, my_id, nDialogs, walkLog, chats, my_messages, stats, embed,
                   text, analysis, sends, net, disconnects>>

SendStart ==
    /\ pc = "send"
    /\ sv.phase = "start"
    /\ IF DeliveryConfigured(cfg)
       THEN sv' = Sv("report", 1) /\ pc' = pc
       ELSE sv' = Sv("skipped", 0) /\ pc' = NormalEnd
    /\ UNCHANGED <<cfg, my_id, nDialogs, walkLog, chats, my_messages, stats, embed,
                   text, analysis, reports, sends, exc, net, disconnects>>

SendReport ==
    /\ pc = "send"
    /\ sv.phase = "report"
    /\ \E outcome \in Outcomes :
          /\ sends' = Append(sends,
                Attempt("report", sv.i, outcome, SleepAfter(outcome), 0))
          /\ sv' = NextSend(sv, outcome, reports.sops)
          /\ pc' = IF NextSend(sv, outcome, reports.sops).phase = "raised"
                   THEN OnRaise ELSE pc
          /\ exc' = IF NextSend(sv, outcome, reports.sops).phase = "raised"
                    THEN Raise("send", 12) ELSE exc
    /\ net' = net \cup {"send"}
    /\ UNCHANGED <<cfg, my_id, nDialogs, walkLog, chats, my_messages, stats, embed,
                   text, analysis, reports, disconnects>>

SendSop ==
    /\ pc = "send"
    /\ sv.phase = "sop"
    /\ \E outcome \in Outcomes :
          /\ sends' = Append(sends,
                Attempt("sop", sv.i, outcome, SleepAfter(outcome), 0))
          /\ sv' = NextSend(sv, outcome, reports.sops)
          /\ pc' = IF NextSend(sv, outcome, reports.sops).phase = "raised"
                   THEN OnRaise ELSE pc
          /\ exc' = IF NextSend(sv, outcome, reports.sops).phase = "raised"
                    THEN Raise("send", 12) ELSE exc
    /\ net' = net \cup {"send"}
    /\ UNCHANGED <<cfg, my_id, nDialogs, walkLog, chats, my_messages, stats, embed,
                   text, analysis, reports, disconnects>>

\* the final message: its post is outside any try block and its response is
\* not examined
SendAck ==
    /\ pc = "send"
    /\ sv.phase = "ack"
    /\ \E outcome \in Outcomes :
          /\ sends' = Append(sends, Attempt("ack", 0, outcome, 0, 0))
          /\ IF outcome = "exception"
             THEN /\ sv' = Sv("raised", 0)
                  /\ pc' = OnRaise
                  /\ \E len \in ErrLens : exc' = Raise("send", len)
             ELSE /\ sv' = Sv("returned", 0)
                  /\ pc' = NormalEnd
                  /\ exc' = exc
    /\ net' = net \cup {"send"}
    /\ UNCHANGED <<cfg, my_id, nDialogs, walkLog, chats, my_messages, stats, embed,
                   text, analysis, reports, disconnects>>

\* the except clause of run(): the error notification
Except ==
    /\ pc = "except"
    /\ IF NotifyConfigured(cfg)
       THEN /\ \E outcome \in Outcomes :
                 /\ sends' = Append(sends,
                       Attempt("error", 0, outcome, 0, ErrorText(exc.len)))
                 /\ exc' = [exc EXCEPT !.escaped = (outcome = "exception")]
            /\ net' = net \cup {"send"}
       ELSE UNCHANGED <<sends, exc, net>>
    /\ pc' = AfterExcept
    /\ UNCHANGED <<cfg, my_id, nDialogs, walkLog, chats, my_messages, stats, embed,
                   text, analysis, reports, sv, disconnects>>

\* the finally clause of run(): client.disconnect(), which may itself raise
Finally ==
    /\ pc = "finally"
    /\ disconnects' = disconnects + 1
    /\ \/ pc' = IF exc.escaped THEN "raised" ELSE "done"
       \/ pc' = "raised"
    /\ UNCHANGED <<cfg, my_id, nDialogs, walkLog, chats, my_messages, stats, embed,
                   text, analysis, reports, sv, sends, exc, net>>

-----------------------------------------------------------------------------
(* Inputs *)

CollectEntities == {UserA, UserAB, UserNoName, BotB, GroupA, SuperC, ChannelD, OtherE}

CollectInputs ==
    {Dialog(UserA, h, NoFail) : h \in ShortHistories}
    \cup {Dialog(GroupA, h, f) : h \in {<<MineNew, OtherNew>>, <<MineNew, MineOld>>},
                                f \in {0, 1, 2}}
    \cup {Dialog(e, <<MineLong, MineEdge, MineOld>>, NoFail) : e \in CollectEntities}
    \cup {Dialog(UserAB, h, NoFail) : h \in LongHistories}

RunInputs ==
    {Dialog(UserA, <<MineNew>>, NoFail), Dialog(UserA, <<MineNew, OtherNew>>, 1),
     Dialog(BotB, <<MineNew>>, NoFail)}

\* {"k": 1, "s": [{}, ..., {}]} with n procedure records
RECURSIVE Repeat(_, _)
Repeat(v, n) == IF n = 0 THEN <<>> ELSE <<v>> \o Repeat(v, n - 1)
SopDoc(n) == JObj(<<[key |-> "k", val |-> JNum],
                    [key |-> "s", val |-> JArr(Repeat(JObj(<<>>), n))]>>)
BadSopDoc == JObj(<<[key |-> "s", val |-> JNum]>>)

RunEmbeds ==
    {Embed(<<"x">>, TRUE, SopDoc(n), <<"x">>) : n \in 0..MaxSops}
    \cup {Embed(<<"x">>, FALSE, JNum, <<>>),
          Embed(<<>>, TRUE, BadSopDoc, <<>>),
          Embed(<<"{">>, TRUE, SopDoc(MaxSops), <<>>)}

-----------------------------------------------------------------------------
(* The pipeline: main() from the configuration check to the end of run() *)

Init ==
    /\ cfg \in Configs
    /\ pc = "main"
    /\ my_id = None
    /\ nDialogs = 0
    /\ walkLog = <<>>
    /\ chats = <<>>
    /\ my_messages = <<>>
    /\ stats = EmptyStats
    /\ embed = NoEmbed
    /\ text = <<>>
    /\ analysis = NoAnalysis
    /\ reports = NoReports
    /\ sv = Sv("idle", 0)
    /\ sends = <<>>
    /\ exc = NoExc
    /\ net = {}
    /\ disconnects = 0

Next ==
    \/ Construct
    \/ Connect
    \/ GetDialogs(0..MaxRunDialogs)
    \/ \E d \in RunInputs : CollectDialog(d)
    \/ CollectFinish
    \/ CheckTotal
    \/ Analyze(RunEmbeds)
    \/ Format
    \/ SendStart
    \/ SendReport
    \/ SendSop
    \/ SendAck
    \/ Except
    \/ Finally

Spec == Init /\ [][Next]_vars

(* The collection model: collect_messages on an authorized session *)

CollectInit ==
    /\ cfg = AllSet
    /\ pc = "get_dialogs"
    /\ my_id = "me"
    /\ nDialogs = 0
    /\ walkLog = <<>>
    /\ chats = <<>>
    /\ my_messages = <<>>
    /\ stats = EmptyStats
    /\ embed = NoEmbed
    /\ text = <<>>
    /\ analysis = NoAnalysis
    /\ reports = NoReports
    /\ sv = Sv("idle", 0)
    /\ sends = <<>>
    /\ exc = NoExc
    /\ net = {"connect"}
    /\ disconnects = 0

CollectNext ==
    \/ GetDialogs(0..MaxDialogs)
    \/ \E d \in CollectInputs : CollectDialog(d)
    \/ CollectFinish

SpecCollect == CollectInit /\ [][CollectNext]_vars

(* The statistics model: collect_messages over many chats with few messages *)

StatEntity(k) ==
    Entity("Chat", ToString(k), <<>>, <<>>, <<"chat", ToString(k)>>, FALSE, FALSE)

\* a history with c owned messages and one message of somebody else
StatHistory(c) == Repeat(MineNew, c) \o <<OtherNew>>

\* the k-th dialog is a chat of its own, with no or one owned message, every
\* third with up to MaxCount; the second may also be the first chat met again
StatInputs(k) ==
    {Dialog(StatEntity(k), StatHistory(c), NoFail) :
        c \in 0..(IF k % 3 = 0 THEN MaxCount ELSE 1)}
    \cup (IF k = 2 THEN {Dialog(StatEntity(1), StatHistory(MaxCount), NoFail)} ELSE {})

StatsNext ==
    \/ GetDialogs({MaxStatChats - 1, MaxStatChats})
    \/ \E d \in StatInputs(Len(walkLog) + 1) : CollectDialog(d)
    \/ CollectFinish

SpecStats == CollectInit /\ [][StatsNext]_vars

(* The parser model: _parse_claude_response on composed texts *)

ProseToks == {"x", "{", "}"}

Docs == {JObj(<<>>), SopDoc(0), SopDoc(1), BadSopDoc,
         JObj(<<[key |-> "k", val |-> JObj(<<[key |-> "k", val |-> JStr("k")]>>)]>>)}

ParseEmbeds ==
    {Embed(pre, TRUE, d, post) :
        pre \in SeqsUpTo(ProseToks, MaxProse), d \in Docs,
        post \in SeqsUpTo(ProseToks, MaxProse)}
    \cup {Embed(pre, FALSE, JNum, <<>>) : pre \in SeqsUpTo(ProseToks, MaxProse)}

ParseInit ==
    /\ cfg = AllSet
    /\ pc = "parse"
    /\ my_id = "me"
    /\ nDialogs = 0
    /\ walkLog = <<>>
    /\ chats = <<>>
    /\ my_messages = <<>>
    /\ stats = EmptyStats
    /\ embed \in ParseEmbeds
    /\ text = Compose(embed)
    /\ analysis = NoAnalysis
    /\ reports = NoReports
    /\ sv = Sv("idle", 0)
    /\ sends = <<>>
    /\ exc = NoExc
    /\ net = {"connect"}
    /\ disconnects = 0

\* "return self._parse_claude_response(response.content[0].text)"
ParseResponse ==
    /\ pc = "parse"
    /\ analysis' = _parse_claude_response(text)
    /\ pc' = "parsed"
    /\ UNCHANGED <<cfg, my_id, nDialogs, walkLog, chats, my_messages, stats, embed,
                   text, reports, sv, sends, exc, net, disconnects>>

ParseNext == ParseResponse

SpecParse == ParseInit /\ [][ParseNext]_vars

-----------------------------------------------------------------------------
(* Properties *)

LastWalk == walkLog[Len(walkLog)]

\* C1 (SpecCollect): a dialog whose message fetch raises, at the first
\* message or part-way, is skipped and nothing else: the step that meets the
\* error leaves the chat records alone and stays in the loop, no fetch error
\* ever reaches the except clause of run(), and once collection is over every
\* dialog of the list has been classified and walked.
C1_FetchErrorSkipsOneDialog ==
    /\ [](/\ ~(exc.raised /\ exc.step = "fetch")
          /\ (\E i \in 1..Len(walkLog) : walkLog[i].outcome = "error")
                => pc \in {"collect", "check_total"}
          /\ pc = "check_total" => Len(walkLog) = nDialogs)
    /\ [][(Len(walkLog') = Len(walkLog) + 1 /\ LastWalk'.outcome = "error")
             => (chats' = chats /\ pc' = "collect")]_vars

C1_Witness ==
    /\ pc = "check_total"
    /\ \E i, k \in 1..Len(walkLog) :
          /\ i < k
          /\ walkLog[i].outcome = "error" /\ walkLog[i].walked > 0
          /\ walkLog[k].outcome = "recorded"

FragmentAttempts == SelectSeq(sends, LAMBDA a : a.kind \in {"report", "sop"})
AckAttempts == SelectSeq(sends, LAMBDA a : a.kind = "ack")
ErrorAttempts == SelectSeq(sends, LAMBDA a : a.kind = "error")

SendOver == sv.phase \in {"returned", "raised"}
SomeFragmentFailed == \E i \in 1..Len(FragmentAttempts) : FragmentAttempts[i].outcome # "ok"

\* main, delegation, action plan, automation, top chats, then each procedure
AllFragmentsAttempted ==
    /\ Len(FragmentAttempts) = REPORT_FRAGMENTS + reports.sops
    /\ \A i \in 1..Len(FragmentAttempts) :
          IF i <= REPORT_FRAGMENTS
          THEN FragmentAttempts[i].kind = "report" /\ FragmentAttempts[i].i = i
          ELSE FragmentAttempts[i].kind = "sop"
               /\ FragmentAttempts[i].i = i - REPORT_FRAGMENTS

C3_AlwaysDisconnects == pc \in {"done", "raised"} => disconnects = 1

C3_Witness ==
    /\ pc = "raised"
    /\ exc.raised /\ exc.escaped
    /\ disconnects = 1

\* C4 (Spec): when run() has ended after one of its steps raised, then with
\* both the bot token and the destination id configured exactly one error
\* notification was attempted, carrying the error message cut to 500
\* characters, and with either missing no send was attempted at all.
C4_OneErrorNotification ==
    (pc \in {"done", "raised"} /\ exc.raised) =>
        IF cfg.bot_token /\ cfg.chat_id
        THEN /\ Len(ErrorAttempts) = 1
             /\ ErrorAttempts[1].errLen = (IF exc.len > 500 THEN 500 ELSE exc.len)
        ELSE sends = <<>>

C4_Witness ==
    /\ pc = "done"
    /\ exc.raised /\ exc.step = "analyze" /\ exc.len > 500
    /\ Len(ErrorAttempts) = 1
    /\ ErrorAttempts[1].errLen = 500

\* C5 (Spec): as long as send_via_bot is in its fragment sequence no
\* acknowledgement has been attempted; once it is over, exactly one has been,
\* right after the last fragment, and every fragment was attempted before it,
\* whatever the outcomes of the fragments.
C5_AckOnceAfterSequence ==
    /\ sv.phase \in {"start", "report", "sop", "ack"} => (pc = "send" /\ AckAttempts = <<>>)
    /\ SendOver =>
          /\ AllFragmentsAttempted
          /\ Len(AckAttempts) = 1
          /\ Len(sends) > REPORT_FRAGMENTS + reports.sops
          /\ sends[REPORT_FRAGMENTS + reports.sops + 1].kind = "ack"

C5_Witness ==
    /\ SendOver
    /\ reports.sops >= 1
    /\ \A i \in 1..Len(FragmentAttempts) : FragmentAttempts[i].outcome # "ok"
    /\ \E i \in 1..Len(FragmentAttempts) : FragmentAttempts[i].outcome = "fail"
    /\ \E i \in 1..Len(FragmentAttempts) : FragmentAttempts[i].outcome = "exception"
    /\ Len(AckAttempts) = 1

\* C6 (SpecCollect): no recorded message is older than the cutoff, no
\* ChatRecord holds more than MAX_MESSAGES_PER_CHAT messages, no walk fetches
\* a message beyond the first one older than the cutoff or beyond the cap,
\* and a walk that stopped does not stop the loop: once collection is over
\* every dialog has been handled.
C6_WalkStopsAtCutoffOrCap ==
    /\ \A c \in 1..Len(chats) :
          /\ \A i \in 1..Len(chats[c].val.messages) :
                chats[c].val.messages[i].date >= cutoff_date
          /\ Len(chats[c].val.messages) <= MAX_MESSAGES_PER_CHAT
          /\ chats[c].val.total_messages <= MAX_MESSAGES_PER_CHAT
    /\ \A d \in 1..Len(walkLog) :
          /\ walkLog[d].walked <= MAX_MESSAGES_PER_CHAT
          /\ walkLog[d].firstOld # 0 => walkLog[d].walked <= walkLog[d].firstOld
    /\ (\E d \in 1..Len(walkLog) : walkLog[d].stop \in {"break", "exhausted"})
          => pc \in {"collect", "check_total"}
    /\ pc = "check_total" => Len(walkLog) = nDialogs

C6_Witness ==
    /\ pc = "check_total"
    /\ \E i, k \in 1..Len(walkLog) :
          /\ i < k
          /\ walkLog[i].stop = "exhausted" /\ walkLog[i].walked = MAX_MESSAGES_PER_CHAT
          /\ walkLog[k].stop = "break" /\ walkLog[k].walked > 1
          /\ walkLog[k].outcome = "recorded"
    /\ \E c \in 1..Len(chats) : Len(chats[c].val.messages) = MAX_MESSAGES_PER_CHAT

\* C7 as claimed (Spec): while the API id, the API secret, the session token
\* or the model API key is missing, no network operation is ever performed.
C7_FailFastBeforeNetwork ==
    (~cfg.api_id \/ ~cfg.api_hash \/ ~cfg.session \/ ~cfg.anthropic_key) => net = {}

ChatPos(name) == CHOOSE k \in 1..Len(chats) : chats[k].key = name
InTop(name) == \E i \in 1..Len(stats.top_chats) : stats.top_chats[i].key = name

\* C8 (SpecStats): after _calculate_stats, top_chats holds at most 10 chats,
\* each a recorded chat with its owned count and none twice, in non-increasing
\* order of owned count; a chat left out has no greater count than any chat
\* kept; chats of equal count stand in the order of their first recording,
\* among the kept and between kept and left out.
C8_TopChats ==
    pc = "check_total" =>
        LET top == stats.top_chats
        IN  /\ Len(top) <= 10
            /\ Len(top) = (IF Len(chats) < 10 THEN Len(chats) ELSE 10)
            /\ \A i \in 1..Len(top) :
                  \E k \in 1..Len(chats) :
                      chats[k].key = top[i].key /\ chats[k].val.my_messages = top[i].val
            /\ \A i, j \in 1..Len(top) :
                  i < j => /\ top[i].key # top[j].key
                           /\ top[i].val >= top[j].val
                           /\ top[i].val = top[j].val
                                 => ChatPos(top[i].key) < ChatPos(top[j].key)
            /\ \A k \in 1..Len(chats) :
                  ~InTop(chats[k].key) =>
                      \A i \in 1..Len(top) :
                          /\ chats[k].val.my_messages <= top[i].val
                          /\ chats[k].val.my_messages = top[i].val
                                => ChatPos(top[i].key) < k

C8_Witness ==
    /\ pc = "check_total"
    /\ Len(chats) > 10
    /\ Len(stats.top_chats) = 10
    /\ stats.top_chats[1].val > stats.top_chats[10].val
    /\ stats.top_chats[9].val = stats.top_chats[10].val
    /\ \E k \in 1..Len(chats) :
          /\ ~InTop(chats[k].key)
          /\ chats[k].val.my_messages = stats.top_chats[10].val
    /\ \E k \in 1..(Len(chats) - 1) :
          chats[k].val.my_messages < chats[k + 1].val.my_messages

\* the spans of the text that are well-formed object documents, and those of
\* them that lie in no other
DocSpans(t) ==
    {sp \in (1..Len(t)) \X (1..Len(t)) :
        /\ sp[1] <= sp[2]
        /\ t[sp[1]] = "{"
        /\ JsonLoads(SubSeq(t, sp[1], sp[2])).ok}
OuterSpans(t) ==
    {sp \in DocSpans(t) :
        \A o \in DocSpans(t) : (o[1] <= sp[1] /\ sp[2] <= o[2]) => o = sp}
ExactlyOneDocument(e) ==
    /\ e.has
    /\ OuterSpans(Compose(e)) =
          {<<Len(e.pre) + 1, Len(e.pre) + Len(JsonDumps(e.doc))>>}

HasTok(t, ch) == \E i \in 1..Len(t) : t[i] = ch

\* C9 as claimed (SpecParse): for a text holding exactly one well-formed
\* object document between arbitrary prose, the parser returns the document.
C9_Original ==
    (pc = "parsed" /\ ExactlyOneDocument(embed)) =>
        (analysis.kind = "parsed" /\ analysis.doc = embed.doc)

\* C9 amended (SpecParse): for a text made of one well-formed object
\* document, prose before it without "{" and prose after it without "}",
\* the parser returns an object equal to the document, not the raw-text form.
C9_RoundTrip ==
    (pc = "parsed" /\ embed.has /\ ~HasTok(embed.pre, "{") /\ ~HasTok(embed.post, "}")) =>
        (analysis.kind = "parsed" /\ analysis.doc = embed.doc)

C9_Witness ==
    /\ pc = "parsed"
    /\ embed.has
    /\ HasTok(embed.pre, "x") /\ HasTok(embed.pre, "}")
    /\ HasTok(embed.post, "{")
    /\ embed.doc = SopDoc(1)
    /\ analysis.kind = "parsed"
    /\ analysis.doc = SopDoc(1)

\* C10 as claimed (Spec): between every two consecutive send attempts of
\* send_via_bot the fixed delay elapses, whatever the outcome of the earlier
\* attempt.
C10_DelayBetweenAttempts ==
    \A i \in 1..(Len(sends) - 1) :
        (sends[i].kind \in {"report", "sop"} /\ sends[i + 1].kind \in {"report", "sop", "ack"})
            => sends[i].delay = SEND_DELAY_MS


RECURSIVE SumOwned(_)
SumOwned(d) == IF d = <<>> THEN 0 ELSE d[1].val.my_messages + SumOwned(Tail(d))

\* the flat entry is one of the messages the ChatRecord of its chat name holds
HeldByItsChat(entry) ==
    /\ DictHas(chats, entry.chat)
    /\ \E i \in 1..Len(DictGet(chats, entry.chat).messages) :
          LET m == DictGet(chats, entry.chat).messages[i]
          IN  /\ m.date = entry.date /\ m.text = entry.text
              /\ m.is_mine = entry.is_mine /\ m.hour = entry.hour

\* C11 as claimed (SpecCollect): once collect_messages is over,
\* total_my_messages is the length of the flat owned-message list and the sum
\* of the owned counts of the ChatRecords, and every entry of the flat list is
\* a message held by the ChatRecord its chat name refers to.
C11_FlatListMatchesChatRecords ==
    pc = "check_total" =>
        /\ stats.total_my_messages = Len(my_messages)
        /\ stats.total_my_messages = SumOwned(chats)
        /\ \A i \in 1..Len(my_messages) : HeldByItsChat(my_messages[i])

=============================================================================
